---- MODULE Spec2Model ----
(***************************************************************************)
(* A model of package todotxt (src/todotxt/todo.go): the header grammar    *)
(* parser (parseDone, parseDate, parsePriority), the Task value built by   *)
(* MakeTask, and the Task methods Complete, Tags and Keywords.             *)
(*                                                                         *)
(* A Go string is a sequence of one-character strings.  Every character    *)
(* used here is ASCII, so a byte index and a rune index coincide.          *)
(* A time.Time holding a calendar date is the record [y, m, d]; the zero   *)
(* time.Time{} is January 1 of year 1.  rune(0) is the empty string.       *)
(***************************************************************************)
EXTENDS Integers, Sequences, FiniteSets, TLC

VARIABLES input, pc, task, item, calls, op, marker, today, pre, ret

vars == <<input, pc, task, item, calls, op, marker, today, pre, ret>>

(***************************************************************************)
(* Characters and constants of the package                                 *)
(***************************************************************************)
LF == "\n"

CR == "\r"

TAB == "\t"

ProjectTag == "+"

ContextTag == "@"

KeywordSep == ":"

PriorityRunes ==
  <<"A", "B", "C", "D", "E", "F", "G", "H", "I", "J", "K", "L", "M",
    "N", "O", "P", "Q", "R", "S", "T", "U", "V", "W", "X", "Y", "Z">>

DateFormat == <<"2", "0", "0", "6", "-", "0", "1", "-", "0", "2">>

Digits == <<"0", "1", "2", "3", "4", "5", "6", "7", "8", "9">>

LowerRunes ==
  <<"a", "b", "c", "d", "e", "f", "g", "h", "i", "j", "k", "l", "m",
    "n", "o", "p", "q", "r", "s", "t", "u", "v", "w", "x", "y", "z">>

Range(s) == {s[i] : i \in 1..Len(s)}

NoRune == ""

ZeroTime == [y |-> 1, m |-> 1, d |-> 1]

(***************************************************************************)
(* Library functions, modelled by what they compute                        *)
(***************************************************************************)
\* s[i:] of Go, with i a 0-based byte offset
From(s, i) == SubSeq(s, i + 1, Len(s))

\* strings.ContainsRune
ContainsRune(s, r) == \E i \in 1..Len(s) : s[i] = r

\* strings.IndexRune: the 0-based index of the first r in s, or -1
IndexRune(s, r) ==
  IF ContainsRune(s, r)
    THEN (CHOOSE i \in 1..Len(s) : s[i] = r /\ \A j \in 1..(i - 1) : s[j] # r) - 1
    ELSE -1

\* unicode.IsSpace on the ASCII characters
IsSpace(r) == r \in {" ", TAB, LF, CR}

\* unicode.IsDigit
IsDigit(r) == ContainsRune(Digits, r)

\* unicode.IsLetter
IsLetter(r) == ContainsRune(PriorityRunes, r) \/ ContainsRune(LowerRunes, r)

\* strings.Replace(s, old, new, -1): leftmost non-overlapping occurrences
RECURSIVE Replace(_, _, _)
Replace(s, old, new) ==
  IF Len(s) < Len(old) THEN s
  ELSE IF SubSeq(s, 1, Len(old)) = old
    THEN new \o Replace(From(s, Len(old)), old, new)
    ELSE <<s[1]>> \o Replace(Tail(s), old, new)

\* strings.Fields: the maximal runs of non-space characters, in order
RECURSIVE FieldsScan(_, _, _)
FieldsScan(s, cur, acc) ==
  IF s = <<>> THEN (IF cur = <<>> THEN acc ELSE Append(acc, cur))
  ELSE IF IsSpace(s[1])
    THEN FieldsScan(Tail(s), <<>>, IF cur = <<>> THEN acc ELSE Append(acc, cur))
    ELSE FieldsScan(Tail(s), Append(cur, s[1]), acc)

Fields(s) == FieldsScan(s, <<>>, <<>>)

\* strings.TrimRight(s, cutset)
RECURSIVE TrimRight(_, _)
TrimRight(s, cutset) ==
  IF Len(s) >= 1 /\ ContainsRune(cutset, s[Len(s)])
    THEN TrimRight(SubSeq(s, 1, Len(s) - 1), cutset)
    ELSE s

\* the index expression s[i] of Go is out of range
BadIndex(s, i) == i < 0 \/ i >= Len(s)

\* the slice expression s[lo:hi] of Go is out of range
BadSlice(s, lo, hi) == lo < 0 \/ hi > Len(s) \/ lo > hi

\* the value of a decimal digit character
DigitVal(c) == (CHOOSE i \in 1..10 : Digits[i] = c) - 1

\* time package, getnum(s, fixed = true): exactly two digits
GetNum2(s, i) ==
  IF IsDigit(s[i]) /\ IsDigit(s[i + 1])
    THEN [ok |-> TRUE, n |-> DigitVal(s[i]) * 10 + DigitVal(s[i + 1])]
    ELSE [ok |-> FALSE, n |-> 0]

\* time package, the stdLongYear chunk: four digits
GetYear(s) ==
  IF \A i \in 1..4 : IsDigit(s[i])
    THEN [ok |-> TRUE,
          n |-> DigitVal(s[1]) * 1000 + DigitVal(s[2]) * 100
                + DigitVal(s[3]) * 10 + DigitVal(s[4])]
    ELSE [ok |-> FALSE, n |-> 0]

\* time package, isLeap
IsLeap(year) == year % 4 = 0 /\ (year % 100 # 0 \/ year % 400 = 0)

\* time package, daysIn
DaysIn(month, year) ==
  IF month = 2 THEN (IF IsLeap(year) THEN 29 ELSE 28)
  ELSE IF month \in {4, 6, 9, 11} THEN 30 ELSE 31

\* time.Parse(DateFormat, v) for a v of exactly len(DateFormat) characters
TimeParse(v) ==
  LET yr == GetYear(v)
      mo == GetNum2(v, 6)
      dy == GetNum2(v, 9)
  IN IF /\ yr.ok /\ v[5] = DateFormat[5]
        /\ mo.ok /\ mo.n >= 1 /\ mo.n <= 12
        /\ v[8] = DateFormat[8]
        /\ dy.ok /\ dy.n >= 1 /\ dy.n <= DaysIn(mo.n, yr.n)
       THEN [err |-> FALSE, t |-> [y |-> yr.n, m |-> mo.n, d |-> dy.n]]
       ELSE [err |-> TRUE, t |-> ZeroTime]

\* the character of the last decimal digit of n
DigitRune(n) == Digits[(n % 10) + 1]

\* Time.Format(layout) for layout = DateFormat followed by literal text
TimeFormat(t, layout) ==
  <<DigitRune(t.y \div 1000), DigitRune(t.y \div 100),
    DigitRune(t.y \div 10), DigitRune(t.y),
    layout[5],
    DigitRune(t.m \div 10), DigitRune(t.m),
    layout[8],
    DigitRune(t.d \div 10), DigitRune(t.d)>>
  \o From(layout, Len(DateFormat))

(***************************************************************************)
(* The line grammar parser                                                 *)
(***************************************************************************)
\* parseDone that does not look at the character after the "x"
parseDoneNoSpace(s) ==
  IF Len(s) >= 2 /\ s[1] = "x"
    THEN [done |-> TRUE, rest |-> From(s, 2)]
    ELSE [done |-> FALSE, rest |-> s]

parseDone(s) ==
  IF Len(s) >= 2 /\ s[1] = "x" /\ s[2] = " "
    THEN [done |-> TRUE, rest |-> From(s, 2)]
    ELSE [done |-> FALSE, rest |-> s]

\* every space after the date, as strings.TrimLeft(s, " ") would remove
RECURSIVE TrimLeftSpaces(_)
TrimLeftSpaces(s) == IF Len(s) >= 1 /\ s[1] = " " THEN TrimLeftSpaces(Tail(s)) ELSE s

\* parseDate that consumes every space after the date
parseDateTrimLeft(s) ==
  IF Len(s) < Len(DateFormat) THEN [t |-> ZeroTime, rest |-> s]
  ELSE LET p == TimeParse(SubSeq(s, 1, Len(DateFormat)))
       IN IF p.err THEN [t |-> ZeroTime, rest |-> s]
          ELSE [t |-> p.t, rest |-> TrimLeftSpaces(From(s, Len(DateFormat)))]

\* parseDate that also gives up on a string as long as the date format
parseDateShortGuard(s) ==
  IF Len(s) <= Len(DateFormat) THEN [t |-> ZeroTime, rest |-> s]
  ELSE LET p == TimeParse(SubSeq(s, 1, Len(DateFormat)))
           r == From(s, Len(DateFormat))
       IN IF p.err THEN [t |-> ZeroTime, rest |-> s]
          ELSE [t |-> p.t,
                rest |-> IF Len(r) >= 1 /\ r[1] = " " THEN From(r, 1) ELSE r]

parseDate(s) ==
  IF Len(s) < Len(DateFormat) THEN [t |-> ZeroTime, rest |-> s]
  ELSE LET p == TimeParse(SubSeq(s, 1, Len(DateFormat)))
           r == From(s, Len(DateFormat))
       IN IF p.err THEN [t |-> ZeroTime, rest |-> s]
          ELSE [t |-> p.t,
                rest |-> IF Len(r) >= 1 /\ r[1] = " " THEN From(r, 1) ELSE r]

\* parsePriority that takes a letter of either case
parsePriorityAnyCase(s) ==
  IF \/ Len(s) < 3
     \/ s[1] # "("
     \/ ~IsLetter(s[2])
     \/ s[3] # ")"
    THEN [prio |-> NoRune, rest |-> s]
    ELSE LET r == From(s, 3)
         IN [prio |-> s[2],
             rest |-> IF Len(r) >= 1 /\ r[1] = " " THEN From(r, 1) ELSE r]

parsePriority(s) ==
  IF \/ Len(s) < 3
     \/ s[1] # "("
     \/ ~ContainsRune(PriorityRunes, s[2])
     \/ s[3] # ")"
    THEN [prio |-> NoRune, rest |-> s]
    ELSE LET r == From(s, 3)
         IN [prio |-> s[2],
             rest |-> IF Len(r) >= 1 /\ r[1] = " " THEN From(r, 1) ELSE r]

\* parseDone(s) panics: one of its index or slice expressions is evaluated
\* out of range
parseDonePanics(s) ==
  /\ Len(s) >= 2
  /\ \/ BadIndex(s, 0)
     \/ s[1] = "x" /\ BadIndex(s, 1)
     \/ s[1] = "x" /\ s[2] = " " /\ BadSlice(s, 2, Len(s))

\* parseDate(s) panics
parseDatePanics(s) ==
  /\ ~(Len(s) < Len(DateFormat))
  /\ \/ BadSlice(s, 0, Len(DateFormat))
     \/ /\ ~TimeParse(SubSeq(s, 1, Len(DateFormat))).err
        /\ \/ BadSlice(s, Len(DateFormat), Len(s))
           \/ LET r == From(s, Len(DateFormat))
              IN Len(r) >= 1 /\ (BadIndex(r, 0) \/ (r[1] = " " /\ BadSlice(r, 1, Len(r))))

\* parsePriority whose length test is len(s) < 2
parsePriorityPanicsShortGuard(s) ==
  /\ ~(Len(s) < 2)
  /\ \/ BadIndex(s, 0)
     \/ /\ ~(s[1] # "(")
        /\ \/ BadIndex(s, 1)
           \/ /\ ContainsRune(PriorityRunes, s[2])
              /\ BadIndex(s, 2)

\* parsePriority(s) panics
parsePriorityPanics(s) ==
  /\ ~(Len(s) < 3)
  /\ \/ BadIndex(s, 0)
     \/ /\ ~(s[1] # "(")
        /\ \/ BadIndex(s, 1)
           \/ /\ ContainsRune(PriorityRunes, s[2])
              /\ \/ BadIndex(s, 2)
                 \/ /\ ~(s[3] # ")")
                    /\ \/ BadSlice(s, 3, Len(s))
                       \/ LET r == From(s, 3)
                          IN Len(r) >= 1
                             /\ (BadIndex(r, 0) \/ (r[1] = " " /\ BadSlice(r, 1, Len(r))))

(***************************************************************************)
(* The Task model                                                          *)
(***************************************************************************)
\* the zero value of struct Task
ZeroTask ==
  [text |-> <<>>, fields |-> <<>>, done |-> FALSE, prio |-> NoRune,
   createDate |-> ZeroTime, doneDate |-> ZeroTime]

\* MakeTask that scans a completion date whether or not the task is done
MakeTaskAlwaysDoneDate(text) ==
  LET txt == Replace(Replace(text, <<CR, LF>>, <<" ">>), <<LF>>, <<" ">>)
      d == parseDone(txt)
      dd == parseDate(d.rest)
      p == parsePriority(dd.rest)
      cd == parseDate(p.rest)
  IN [text |-> txt, fields |-> Fields(txt), done |-> d.done, prio |-> p.prio,
      createDate |-> cd.t, doneDate |-> dd.t]

\* MakeTask that parses the priority before the completion date
MakeTaskPrioFirst(text) ==
  LET txt == Replace(Replace(text, <<CR, LF>>, <<" ">>), <<LF>>, <<" ">>)
      d == parseDone(txt)
      p == parsePriority(d.rest)
      dd == IF d.done THEN parseDate(p.rest) ELSE [t |-> ZeroTime, rest |-> p.rest]
      cd == parseDate(dd.rest)
  IN [text |-> txt, fields |-> Fields(txt), done |-> d.done, prio |-> p.prio,
      createDate |-> cd.t, doneDate |-> dd.t]

\* MakeTask that replaces "\n" before "\r\n"
MakeTaskNewlineFirst(text) ==
  LET txt == Replace(Replace(text, <<LF>>, <<" ">>), <<CR, LF>>, <<" ">>)
      d == parseDone(txt)
      dd == IF d.done THEN parseDate(d.rest) ELSE [t |-> ZeroTime, rest |-> d.rest]
      p == parsePriority(dd.rest)
      cd == parseDate(p.rest)
  IN [text |-> txt, fields |-> Fields(txt), done |-> d.done, prio |-> p.prio,
      createDate |-> cd.t, doneDate |-> dd.t]

MakeTask(text) ==
  LET txt == Replace(Replace(text, <<CR, LF>>, <<" ">>), <<LF>>, <<" ">>)
      d == parseDone(txt)
      dd == IF d.done THEN parseDate(d.rest) ELSE [t |-> ZeroTime, rest |-> d.rest]
      p == parsePriority(dd.rest)
      cd == parseDate(p.rest)
  IN [text |-> txt, fields |-> Fields(txt), done |-> d.done, prio |-> p.prio,
      createDate |-> cd.t, doneDate |-> dd.t]

\* MakeTask(text) panics: one of the parsers it calls does
MakeTaskPanics(text) ==
  LET txt == Replace(Replace(text, <<CR, LF>>, <<" ">>), <<LF>>, <<" ">>)
  IN \/ parseDonePanics(txt)
     \/ LET d == parseDone(txt)
        IN \/ d.done /\ parseDatePanics(d.rest)
           \/ LET dd == IF d.done THEN parseDate(d.rest)
                                  ELSE [t |-> ZeroTime, rest |-> d.rest]
              IN \/ parsePriorityPanics(dd.rest)
                 \/ parseDatePanics(parsePriority(dd.rest).rest)

\* the text of t joined again from its fields
RECURSIVE JoinFields(_)
JoinFields(fs) ==
  IF fs = <<>> THEN <<>>
  ELSE IF Len(fs) = 1 THEN fs[1]
  ELSE fs[1] \o <<" ">> \o JoinFields(Tail(fs))

\* String that renders the task from its fields
StringFromFields(t) == JoinFields(t.fields)

String(t) == t.text

TaskPriority(t) == t.prio

CompletionDate(t) == t.doneDate

CreationDate(t) == t.createDate

IsDone(t) == t.done

\* Complete that sets the text and the done flag and parses nothing again
CompleteStaleFields(t, now) ==
  IF IsDone(t) THEN t
  ELSE LET fmt == IF t.text # <<>> THEN DateFormat \o <<" ">> ELSE DateFormat
           prefix == <<"x", " ">> \o TimeFormat(now, fmt)
       IN [t EXCEPT !.text = prefix \o t.text, !.done = TRUE]

\* Complete without the test for a done task
CompleteUnguarded(t, now) ==
  LET fmt == IF t.text # <<>> THEN DateFormat \o <<" ">> ELSE DateFormat
      prefix == <<"x", " ">> \o TimeFormat(now, fmt)
  IN MakeTask(prefix \o t.text)

\* Complete that always writes a space after the date
CompleteAlwaysSpace(t, now) ==
  IF IsDone(t) THEN t
  ELSE MakeTask(<<"x", " ">> \o TimeFormat(now, DateFormat \o <<" ">>) \o t.text)

\* Complete that leaves the priority out of the new text
CompleteDropsPriority(t, now) ==
  IF IsDone(t) THEN t
  ELSE LET fmt == IF t.text # <<>> THEN DateFormat \o <<" ">> ELSE DateFormat
           prefix == <<"x", " ">> \o TimeFormat(now, fmt)
       IN MakeTask(prefix \o parsePriority(t.text).rest)

\* the Task after t.Complete() when time.Now() is the date now
Complete(t, now) ==
  IF IsDone(t) THEN t
  ELSE LET fmt == IF t.text # <<>> THEN DateFormat \o <<" ">> ELSE DateFormat
           prefix == <<"x", " ">> \o TimeFormat(now, fmt)
       IN MakeTask(prefix \o t.text)

\* t.Complete() panics
CompletePanics(t, now) ==
  /\ ~IsDone(t)
  /\ MakeTaskPanics(<<"x", " ">>
                    \o TimeFormat(now, IF t.text # <<>> THEN DateFormat \o <<" ">>
                                                        ELSE DateFormat)
                    \o t.text)

\* tagEnd without the test for '_'
tagEndNoUnderscore(r) == IsDigit(r) \/ IsLetter(r)

tagEnd(r) == IsDigit(r) \/ IsLetter(r) \/ r = "_"

RECURSIVE TagsLoop(_, _, _)
TagsLoop(fs, mk, tags) ==
  IF fs = <<>> THEN tags
  ELSE LET f == Head(fs)
       IN IF f[1] # mk THEN TagsLoop(Tail(fs), mk, tags)
          ELSE IF ~tagEnd(f[Len(f)]) THEN TagsLoop(Tail(fs), mk, tags)
          ELSE TagsLoop(Tail(fs), mk, Append(tags, f))

Tags(t, mk) == TagsLoop(t.fields, mk, <<>>)

\* the Keywords loop that keeps the first value of a key
RECURSIVE KeywordsLoopFirstWins(_, _)
KeywordsLoopFirstWins(fs, kwds) ==
  IF fs = <<>> THEN kwds
  ELSE LET f == Head(fs)
           i == IndexRune(f, KeywordSep)
       IN IF i < 0 \/ SubSeq(f, 1, i) \in DOMAIN kwds
            THEN KeywordsLoopFirstWins(Tail(fs), kwds)
            ELSE KeywordsLoopFirstWins(Tail(fs),
                   [k \in DOMAIN kwds \cup {SubSeq(f, 1, i)} |->
                      IF k = SubSeq(f, 1, i) THEN From(f, i + 1) ELSE kwds[k]])

RECURSIVE KeywordsLoop(_, _)
KeywordsLoop(fs, kwds) ==
  IF fs = <<>> THEN kwds
  ELSE LET f == Head(fs)
           i == IndexRune(f, KeywordSep)
       IN IF i < 0 THEN KeywordsLoop(Tail(fs), kwds)
          ELSE KeywordsLoop(Tail(fs),
                 [k \in DOMAIN kwds \cup {SubSeq(f, 1, i)} |->
                    IF k = SubSeq(f, 1, i) THEN From(f, i + 1) ELSE kwds[k]])

Keywords(t) == KeywordsLoop(t.fields, [k \in {} |-> <<>>])

\* t.Keywords() panics: a slice of a field at its first ':' is out of range
KeywordsPanics(t) ==
  \E n \in 1..Len(t.fields) :
    LET f == t.fields[n]
        i == IndexRune(f, KeywordSep)
    IN ~(i < 0) /\ (BadSlice(f, 0, i) \/ BadSlice(f, i + 1, Len(f)))

(***************************************************************************)
(* File                                                                    *)
(***************************************************************************)
\* the loop of ReadFile over what is left of the input: ReadString('\n')
\* returns the bytes up to and with the first LF, or the rest and io.EOF
RECURSIVE ReadFileLoop(_, _)
ReadFileLoop(in, tasks) ==
  LET i == IndexRune(in, LF)
      eof == i < 0
      line == IF eof THEN in ELSE SubSeq(in, 1, i + 1)
      appended == Append(tasks, MakeTask(TrimRight(line, <<CR, LF>>)))
  IN IF eof THEN appended ELSE ReadFileLoop(From(in, i + 1), appended)

\* the File that ReadFile returns for a reader that gives in and then io.EOF
ReadFile(in) == [Tasks |-> ReadFileLoop(in, <<>>)]

\* the bytes that f.WriteTo(out) writes to a Writer that takes them all
RECURSIVE WriteToLoop(_)
WriteToLoop(tasks) ==
  IF tasks = <<>> THEN <<>>
  ELSE String(Head(tasks)) \o <<LF>> \o WriteToLoop(Tail(tasks))

WriteTo(f) == WriteToLoop(f.Tasks)

(***************************************************************************)
(* The lazy Task (src/unnamed/part_001): it keeps its text alone and       *)
(* parses the head of the text in every accessor                           *)
(***************************************************************************)
PrioRunes ==
  <<"A", "B", "C", "D", "E", "F", "G", "H", "I", "J", "K", "L", "M",
    "N", "O", "P", "Q", "R", "S", "T", "U", "V", "W", "X", "Y", "Z">>

lazyMakeTask(text) ==
  [text |-> Replace(Replace(text, <<CR, LF>>, <<" ">>), <<LF>>, <<" ">>)]

lazyParseDone(s) ==
  IF Len(s) >= 2 /\ s[1] = "x" /\ s[2] = " "
    THEN [done |-> TRUE, rest |-> From(s, 2)]
    ELSE [done |-> FALSE, rest |-> s]

lazyParseDate(s) ==
  IF Len(s) < Len(DateFormat) THEN [t |-> ZeroTime, rest |-> s]
  ELSE LET p == TimeParse(SubSeq(s, 1, Len(DateFormat)))
           r == From(s, Len(DateFormat))
       IN IF p.err THEN [t |-> ZeroTime, rest |-> s]
          ELSE [t |-> p.t,
                rest |-> IF Len(r) >= 1 /\ r[1] = " " THEN From(r, 1) ELSE r]

\* the priority is a string here: the letter, or the empty string
lazyParsePriority(s) ==
  IF \/ Len(s) < 3
     \/ s[1] # "("
     \/ ~ContainsRune(PrioRunes, s[2])
     \/ s[3] # ")"
    THEN [prio |-> <<>>, rest |-> s]
    ELSE LET r == From(s, 3)
         IN [prio |-> SubSeq(s, 2, 2),
             rest |-> IF Len(r) >= 1 /\ r[1] = " " THEN From(r, 1) ELSE r]

\* header that parses a completion date whether or not the task is done
headerDateAlways(t) ==
  LET d == lazyParseDone(t.text)
      dd == lazyParseDate(d.rest)
      p == lazyParsePriority(dd.rest)
      cd == lazyParseDate(p.rest)
  IN [d |-> d.done, dDate |-> dd.t, p |-> p.prio, cDate |-> cd.t]

header(t) ==
  LET d == lazyParseDone(t.text)
      dd == IF d.done THEN lazyParseDate(d.rest) ELSE [t |-> ZeroTime, rest |-> d.rest]
      p == lazyParsePriority(dd.rest)
      cd == lazyParseDate(p.rest)
  IN [d |-> d.done, dDate |-> dd.t, p |-> p.prio, cDate |-> cd.t]

RECURSIVE lazyTagsLoop(_, _, _)
lazyTagsLoop(fs, mk, tags) ==
  IF fs = <<>> THEN tags
  ELSE LET f == Head(fs)
       IN IF f[1] # mk THEN lazyTagsLoop(Tail(fs), mk, tags)
          ELSE IF ~(IsDigit(f[Len(f)]) \/ IsLetter(f[Len(f)]) \/ f[Len(f)] = "_")
            THEN lazyTagsLoop(Tail(fs), mk, tags)
          ELSE lazyTagsLoop(Tail(fs), mk, Append(tags, f))

lazyTags(t, mk) == lazyTagsLoop(Fields(t.text), mk, <<>>)

RECURSIVE lazyKeywordsLoop(_, _)
lazyKeywordsLoop(fs, kwds) ==
  IF fs = <<>> THEN kwds
  ELSE LET f == Head(fs)
           i == IndexRune(f, KeywordSep)
       IN IF i < 0 THEN lazyKeywordsLoop(Tail(fs), kwds)
          ELSE lazyKeywordsLoop(Tail(fs),
                 [k \in DOMAIN kwds \cup {SubSeq(f, 1, i)} |->
                    IF k = SubSeq(f, 1, i) THEN From(f, i + 1) ELSE kwds[k]])

lazyKeywords(t) == lazyKeywordsLoop(Fields(t.text), [k \in {} |-> <<>>])

(***************************************************************************)
(* Package todo (src/todo/todo.go): the Item, whose fields are the truth   *)
(* and whose text is rendered from them                                    *)
(***************************************************************************)
NoPriority == NoRune

\* the zero value of struct Item
ZeroItem ==
  [Priority |-> NoPriority, Projects |-> <<>>, Contexts |-> <<>>, Done |-> FALSE,
   AddedDate |-> ZeroTime, FinishDate |-> ZeroTime, text |-> <<>>]

\* timeFormat: DateFormat and a space
timeFormat == DateFormat \o <<" ">>

\* Priority that takes every rune
PriorityUnchecked(r) == [panic |-> FALSE, p |-> r]

\* Priority(r): the priority of a rune of PriorityRunes, a panic otherwise
Priority(r) ==
  IF ~ContainsRune(PriorityRunes, r)
    THEN [panic |-> TRUE, p |-> NoPriority]
    ELSE [panic |-> FALSE, p |-> r]

\* priority.String
PriorityString(p) == IF p = NoPriority THEN <<>> ELSE <<"(">> \o <<p>> \o <<")">>

\* strings.HasPrefix
StringsHasPrefix(s, prefix) ==
  Len(s) >= Len(prefix) /\ SubSeq(s, 1, Len(prefix)) = prefix

\* strings.IndexFunc(s, unicode.IsSpace)
IndexSpace(s) ==
  IF \E i \in 1..Len(s) : IsSpace(s[i])
    THEN (CHOOSE i \in 1..Len(s) : IsSpace(s[i]) /\ \A j \in 1..(i - 1) : ~IsSpace(s[j])) - 1
    ELSE -1

\* strings.TrimSpace
RECURSIVE TrimSpace(_)
TrimSpace(s) ==
  IF Len(s) >= 1 /\ IsSpace(s[1]) THEN TrimSpace(Tail(s))
  ELSE IF Len(s) >= 1 /\ IsSpace(s[Len(s)]) THEN TrimSpace(SubSeq(s, 1, Len(s) - 1))
  ELSE s

\* time.Parse(timeFormat, v) for a v of len(timeFormat) characters: the
\* space of the layout stands for a space of v
TimeParseSpace(v) ==
  IF v[Len(timeFormat)] = " " THEN TimeParse(SubSeq(v, 1, Len(DateFormat)))
  ELSE [err |-> TRUE, t |-> ZeroTime]

\* parseDate of package todo
todoParseDate(s) ==
  IF Len(s) < Len(timeFormat) THEN [t |-> ZeroTime, rest |-> s]
  ELSE LET p == TimeParseSpace(SubSeq(s, 1, Len(timeFormat)))
       IN IF p.err THEN [t |-> ZeroTime, rest |-> s]
          ELSE [t |-> p.t, rest |-> From(s, Len(timeFormat))]

parseCompleted(s) ==
  IF Len(s) >= 2 /\ s[1] = "x" /\ s[2] = " "
    THEN LET d == todoParseDate(From(s, 2))
         IN [done |-> TRUE, t |-> d.t, rest |-> d.rest]
    ELSE [done |-> FALSE, t |-> ZeroTime, rest |-> s]

\* parsePriority of package todo that does not ask for the space
todoParsePriorityNoSpace(s) ==
  IF \/ Len(s) < 3
     \/ s[1] # "("
     \/ ~ContainsRune(PriorityRunes, s[2])
     \/ s[3] # ")"
    THEN [prio |-> NoPriority, rest |-> s]
    ELSE [prio |-> s[2], rest |-> From(s, 3)]

\* parsePriority of package todo
todoParsePriority(s) ==
  IF \/ Len(s) < 4
     \/ s[1] # "("
     \/ ~ContainsRune(PriorityRunes, s[2])
     \/ s[3] # ")"
     \/ s[4] # " "
    THEN [prio |-> NoPriority, rest |-> s]
    ELSE [prio |-> s[2], rest |-> From(s, 4)]

RECURSIVE findTagsLoop(_, _, _)
findTagsLoop(mk, s, tags) ==
  LET start == IndexRune(s, mk)
  IN IF start < 0 THEN tags
     ELSE LET s2 == From(s, start + 1)
              sp == IndexSpace(s2)
              end == IF sp < 0 THEN Len(s2) ELSE sp
              tag == SubSeq(s2, 1, end)
          IN findTagsLoop(mk, s2,
               IF Len(tag) > 1
                  /\ (IsDigit(tag[Len(tag)]) \/ IsLetter(tag[Len(tag)]) \/ tag[Len(tag)] = "_")
                 THEN Append(tags, tag)
                 ELSE tags)

findTags(mk, s) == findTagsLoop(mk, s, <<>>)

ParseItem(line) ==
  LET c == parseCompleted(line)
      p == todoParsePriority(c.rest)
      a == todoParseDate(p.rest)
  IN [Priority |-> p.prio, Projects |-> findTags("+", a.rest),
      Contexts |-> findTags("@", a.rest), Done |-> c.done,
      AddedDate |-> a.t, FinishDate |-> c.t, text |-> a.rest]

\* addTag: for the empty s the last rune is utf8.RuneError, not a space
addTag(s, tag) ==
  IF ~(Len(s) >= 1 /\ IsSpace(s[Len(s)])) THEN s \o <<" ">> \o tag ELSE s \o tag

\* tagPrefix that does not look at what follows the tag
tagPrefixNoBoundary(s, tag) ==
  IF StringsHasPrefix(s, tag) THEN [ok |-> TRUE, sz |-> Len(tag)]
  ELSE [ok |-> FALSE, sz |-> 0]

tagPrefix(s, tag) ==
  IF ~StringsHasPrefix(s, tag) THEN [ok |-> FALSE, sz |-> 0]
  ELSE IF Len(s) = Len(tag) THEN [ok |-> TRUE, sz |-> Len(s)]
  ELSE IF IsSpace(s[Len(tag) + 1]) THEN [ok |-> TRUE, sz |-> Len(tag) + 1]
  ELSE [ok |-> FALSE, sz |-> 0]

RECURSIVE rmTagLoop(_, _, _, _)
rmTagLoop(rest, tag, s, space) ==
  IF ~(Len(rest) > 0) THEN s
  ELSE LET tp == tagPrefix(rest, tag)
       IN IF tp.ok
            THEN rmTagLoop(From(rest, IF ~space THEN Len(tag) ELSE tp.sz), tag, s, space)
            ELSE rmTagLoop(Tail(rest), tag, Append(s, rest[1]), IsSpace(rest[1]))

rmTag(s, tag) == rmTagLoop(s, tag, <<>>, TRUE)

\* longFirstSorter.Less
LongFirstLess(a, b) == Len(a) > Len(b)

\* sort.Sort(longFirstSorter(tags)) for a short slice: insertion sort, which
\* moves an element left past every element that it is Less than
RECURSIVE InsertLongFirst(_, _)
InsertLongFirst(sorted, x) ==
  IF sorted # <<>> /\ LongFirstLess(x, sorted[Len(sorted)])
    THEN Append(InsertLongFirst(SubSeq(sorted, 1, Len(sorted) - 1), x), sorted[Len(sorted)])
    ELSE Append(sorted, x)

RECURSIVE SortLongFirst(_)
SortLongFirst(tags) ==
  IF tags = <<>> THEN <<>>
  ELSE InsertLongFirst(SortLongFirst(SubSeq(tags, 1, Len(tags) - 1)), tags[Len(tags)])

\* the texts that the loop "for t := range inText" of reconsileTags may
\* leave: the keys of a Go map are visited in an order that is not fixed
RECURSIVE RemoveRange(_, _, _)
RemoveRange(text, mk, toRemove) ==
  IF toRemove = {} THEN {text}
  ELSE UNION {RemoveRange(rmTag(text, <<mk>> \o t), mk, toRemove \ {t}) : t \in toRemove}

\* the second loop of reconsileTags, over what is left of tags
RECURSIVE AddRange(_, _, _, _)
AddRange(text, mk, tags, inText) ==
  IF tags = <<>> THEN text
  ELSE AddRange(IF Head(tags) \notin inText THEN addTag(text, <<mk>> \o Head(tags)) ELSE text,
                mk, Tail(tags), inText)

\* reconsileTags: the texts it may return, each with the slice tags as the
\* call leaves it (sort.Sort sorts the caller's slice in place)
reconsileTags(text, mk, tags) ==
  LET inSlice == Range(tags)
      inText == Range(findTags(mk, text))
      sorted == SortLongFirst(tags)
  IN {[text |-> AddRange(t, mk, sorted, Range(findTags(mk, t))), tags |-> sorted] :
        t \in RemoveRange(text, mk, {x \in inText : x \notin inSlice})}

\* Item.Text: the Items that the call may leave; the text of each is what
\* the call returns
Text(i) ==
  UNION {{[i EXCEPT !.text = TrimSpace(r2.text), !.Projects = r1.tags, !.Contexts = r2.tags] :
            r2 \in reconsileTags(r1.text, "@", i.Contexts)} :
           r1 \in reconsileTags(i.text, "+", i.Projects)}

\* the head of Item.String: what is written before the text
ItemHead(i) ==
  (IF i.Done
     THEN <<"x", " ">> \o (IF i.FinishDate # ZeroTime THEN TimeFormat(i.FinishDate, timeFormat)
                                                      ELSE <<>>)
     ELSE <<>>)
  \o (IF i.Priority # NoPriority THEN PriorityString(i.Priority) \o <<" ">> ELSE <<>>)
  \o (IF i.AddedDate # ZeroTime THEN TimeFormat(i.AddedDate, timeFormat) ELSE <<>>)

\* Item.String that does not trim what it has put together
ItemStringNoTrim(i) ==
  {[item |-> i2, ret |-> ItemHead(i) \o i2.text] : i2 \in Text(i)}

\* Item.String: the Items that the call may leave, each with what it returns
ItemString(i) ==
  {[item |-> i2, ret |-> TrimSpace(ItemHead(i) \o i2.text)] : i2 \in Text(i)}

(***************************************************************************)
(* Inputs                                                                  *)
(***************************************************************************)
\* the largest number of words in a free text
MaxWords == 2

\* the ten characters of a date token with the given numbers
DateToken(y, m, d) == TimeFormat([y |-> y, m |-> m, d |-> d], DateFormat)

Sp == <<" ">>

\* the head of a line: completion marker, date, priority, date
Markers == {<<>>, <<"x", " ">>, <<"x">>, <<"X", " ">>, <<"x", LF>>, <<"x", CR, LF>>}

HeaderDates ==
  {<<>>, DateToken(2012, 12, 23) \o Sp, DateToken(2012, 12, 20) \o Sp,
   DateToken(2012, 2, 29), DateToken(2013, 2, 29) \o Sp}

HeaderPrios == {<<>>, <<"(", "A", ")", " ">>, <<"(", "Z", ")">>, <<"(", "a", ")", " ">>}

Headers ==
  {m \o d1 \o p \o d2 : m \in Markers, d1 \in HeaderDates,
                        p \in HeaderPrios, d2 \in HeaderDates}

\* the words of a free text; the empty word makes runs of spaces
Words ==
  {<<>>,
   <<"h", "e", "l", "l", "o">>,
   <<"+", "f", "o", "o">>,
   <<"+", "b", "a", "r">>,
   <<"+", "f", "o", "o", "+">>,
   <<"+", "f", "o", "o", "+", "b", "a", "r">>,
   <<"@", "c", "_">>,
   <<"@", "c", "1", TAB, "+">>,
   <<"d", "u", "e", ":", "a">>,
   <<"d", "u", "e", ":", "b", ":", "c">>,
   <<":">>}

RECURSIVE Join(_)
Join(ws) ==
  IF ws = <<>> THEN <<>>
  ELSE IF Len(ws) = 1 THEN ws[1]
  ELSE ws[1] \o Sp \o Join(Tail(ws))

Texts == {Join(ws) : ws \in UNION {[1..k -> Words] : k \in 0..MaxWords}}

\* the words put after a head
HeaderWords == {<<>>, <<"h", "e", "l", "l", "o">>, <<"+", "f", "o", "o">>}

TaskInputs == {h \o w : h \in Headers, w \in HeaderWords} \cup Texts

\* strings that start with something like a date
DateTails == {<<>>, Sp, <<" ", " ">>, <<"x">>, <<" ", "x">>}

DateInputs ==
  {DateToken(y, m, d) \o tl :
     y \in {0, 1900, 2000, 2012}, m \in {0, 1, 2, 4, 12, 13},
     d \in {0, 1, 28, 29, 30, 31, 32}, tl \in DateTails}
  \cup {SubSeq(DateToken(2012, 12, 23), 1, k) : k \in 0..9}
  \cup {[DateToken(2012, 12, 23) EXCEPT ![k] = c] \o tl :
          k \in 1..10, c \in {"-", "/", "x", " ", "+"}, tl \in {<<>>, Sp}}
  \cup {Sp \o DateToken(2012, 12, 23)}

\* strings that start with something like a priority
PrioInputs ==
  {<<"(", c, ")">> \o tl :
     c \in Range(PriorityRunes) \cup {"a", "z", "1", "(", ")", " "}, tl \in DateTails}
  \cup {<<"(", "A", "B", ")">>, <<"(", "A">>, <<"(">>, <<"A", ")">>,
        <<" ", "(", "A", ")">>, <<"[", "A", "]">>, <<"(", "A", "]", " ">>}

\* the largest number of lines in the input of ReadFile
MaxLines == 2

Lines ==
  {<<>>, <<"x", " ">>, <<"+", "f", "o", "o">>, <<"a", CR>>, <<"(", "A", ")", " ", "b">>}

RECURSIVE JoinLines(_)
JoinLines(ls) ==
  IF ls = <<>> THEN <<>>
  ELSE IF Len(ls) = 1 THEN ls[1]
  ELSE ls[1] \o <<LF>> \o JoinLines(Tail(ls))

\* files of up to MaxLines lines, the last one with or without its line end
FileInputs ==
  {JoinLines(ls) \o end :
     ls \in UNION {[1..k -> Lines] : k \in 0..MaxLines},
     end \in {<<>>, <<LF>>, <<CR, LF>>}}

\* the lines with line breaks of TestMakeTask, and carriage returns that
\* are not followed by a line feed
BrokenLines ==
  {<<"x", LF>> \o DateToken(2012, 12, 23),
   <<"x", CR, LF>> \o DateToken(2012, 12, 23),
   <<"x", CR, LF>> \o DateToken(2012, 12, 23) \o <<LF>> \o DateToken(2012, 12, 20),
   <<"a", CR, "b">>,
   <<"a", CR, CR, LF, LF, "b">>}

Inputs ==
  TaskInputs \cup DateInputs \cup PrioInputs \cup FileInputs \cup BrokenLines
  \cup DateTails

\* dates of the calendar, for formatting
CalendarDates ==
  {dt \in [y : {0, 1, 1900, 2000, 2012, 2013, 9999}, m : 1..12, d : 1..31] :
     \/ dt.d <= 28
     \/ dt.d <= 30 /\ dt.m # 2
     \/ dt.d = 31 /\ dt.m \in {1, 3, 5, 7, 8, 10, 12}
     \/ dt.d = 29 /\ dt.m = 2 /\ dt.y \in {0, 2000, 2012}}

\* the dates time.Now() may fall on
Todays == {[y |-> 2012, m |-> 12, d |-> 24], [y |-> 2024, m |-> 2, d |-> 29]}

(***************************************************************************)
(* The state machine: a caller holding one input string applies the        *)
(* package's functions to it, builds a Task and calls its methods          *)
(***************************************************************************)
Init ==
  /\ input \in Inputs
  /\ pc = "start"
  /\ task = ZeroTask
  /\ item = ZeroItem
  /\ calls = 0
  /\ op = "none"
  /\ marker = NoRune
  /\ today = ZeroTime
  /\ pre = ZeroTask
  /\ ret = <<>>

\* what the caller saw of the last call
Called(o, mk, now, r) ==
  /\ op' = o
  /\ marker' = mk
  /\ today' = now
  /\ pre' = task
  /\ ret' = r
  /\ input' = input
  /\ item' = item
  /\ calls' = calls

\* where a call leaves the caller: in a panic or at the place given
Outcome(panics, place) == IF panics THEN "panic" ELSE place

CallParseDone ==
  /\ pc = "start"
  /\ pc' = Outcome(parseDonePanics(input), "returned")
  /\ Called("parseDone", NoRune, ZeroTime, parseDone(input))
  /\ task' = task

CallParseDate ==
  /\ pc = "start"
  /\ pc' = Outcome(parseDatePanics(input), "returned")
  /\ Called("parseDate", NoRune, ZeroTime, parseDate(input))
  /\ task' = task

\* a date is formatted with DateFormat, the input is put after it and the
\* whole is parsed
CallFormatParseDate ==
  /\ pc = "start"
  /\ input \in DateTails
  /\ \E dt \in CalendarDates :
       LET s == TimeFormat(dt, DateFormat) \o input
       IN /\ pc' = Outcome(parseDatePanics(s), "returned")
          /\ Called("FormatParseDate", NoRune, dt, parseDate(s))
  /\ task' = task

CallParsePriority ==
  /\ pc = "start"
  /\ pc' = Outcome(parsePriorityPanics(input), "returned")
  /\ Called("parsePriority", NoRune, ZeroTime, parsePriority(input))
  /\ task' = task

CallMakeTask ==
  /\ pc = "start"
  /\ pc' = Outcome(MakeTaskPanics(input), "task")
  /\ task' = MakeTask(input)
  /\ Called("MakeTask", NoRune, ZeroTime, <<>>)

CallReadFile ==
  /\ pc = "start"
  /\ pc' = Outcome(\E n \in 1..Len(ReadFile(input).Tasks) :
                     MakeTaskPanics(ReadFile(input).Tasks[n].text), "returned")
  /\ Called("ReadFile", NoRune, ZeroTime, ReadFile(input))
  /\ task' = task

\* the caller makes a Task of the input, puts it into a File up to MaxLines
\* times, writes the File and reads the written bytes back
CallWriteRead ==
  /\ pc = "start"
  /\ pc' = Outcome(MakeTaskPanics(input), "returned")
  /\ \E n \in 0..MaxLines :
       LET f == [Tasks |-> [k \in 1..n |-> MakeTask(input)]]
       IN Called("WriteRead", NoRune, ZeroTime,
                 [f |-> f, out |-> WriteTo(f), back |-> ReadFile(WriteTo(f))])
  /\ task' = task

\* the caller makes a Task of the input in both designs and calls the
\* accessors of both
CallBothDesigns ==
  /\ pc = "start"
  /\ pc' = Outcome(MakeTaskPanics(input), "returned")
  /\ LET e == MakeTask(input)
         l == lazyMakeTask(input)
     IN Called("BothDesigns", NoRune, ZeroTime,
               [eager |-> [text |-> String(e), done |-> IsDone(e),
                           doneDate |-> CompletionDate(e), prio |-> TaskPriority(e),
                           createDate |-> CreationDate(e),
                           projects |-> Tags(e, ProjectTag),
                           contexts |-> Tags(e, ContextTag),
                           keywords |-> Keywords(e)],
                lazy |-> [text |-> l.text, done |-> header(l).d,
                          doneDate |-> header(l).dDate, prio |-> header(l).p,
                          createDate |-> header(l).cDate,
                          projects |-> lazyTags(l, ProjectTag),
                          contexts |-> lazyTags(l, ContextTag),
                          keywords |-> lazyKeywords(l)]])
  /\ task' = task

CallComplete ==
  /\ pc = "task"
  /\ \E now \in Todays :
       /\ task' = Complete(task, now)
       /\ Called("Complete", NoRune, now, <<>>)
       /\ pc' = Outcome(CompletePanics(task, now), pc)

CallTags ==
  /\ pc = "task"
  /\ \E mk \in {ProjectTag, ContextTag} :
       Called("Tags", mk, ZeroTime, Tags(task, mk))
  /\ UNCHANGED <<pc, task>>

CallKeywords ==
  /\ pc = "task"
  /\ pc' = Outcome(KeywordsPanics(task), pc)
  /\ Called("Keywords", NoRune, ZeroTime, Keywords(task))
  /\ task' = task

CallString ==
  /\ pc = "task"
  /\ Called("String", NoRune, ZeroTime, String(task))
  /\ UNCHANGED <<pc, task>>

CallIsDone ==
  /\ pc = "task"
  /\ Called("IsDone", NoRune, ZeroTime, IsDone(task))
  /\ UNCHANGED <<pc, task>>

CallTaskPriority ==
  /\ pc = "task"
  /\ Called("Priority", NoRune, ZeroTime, TaskPriority(task))
  /\ UNCHANGED <<pc, task>>

CallCreationDate ==
  /\ pc = "task"
  /\ Called("CreationDate", NoRune, ZeroTime, CreationDate(task))
  /\ UNCHANGED <<pc, task>>

CallCompletionDate ==
  /\ pc = "task"
  /\ Called("CompletionDate", NoRune, ZeroTime, CompletionDate(task))
  /\ UNCHANGED <<pc, task>>

Next ==
  \/ CallParseDone
  \/ CallParseDate
  \/ CallFormatParseDate
  \/ CallParsePriority
  \/ CallMakeTask
  \/ CallReadFile
  \/ CallWriteRead
  \/ CallBothDesigns
  \/ CallComplete
  \/ CallTags
  \/ CallKeywords
  \/ CallString
  \/ CallIsDone
  \/ CallTaskPriority
  \/ CallCreationDate
  \/ CallCompletionDate

Spec == Init /\ [][Next]_vars

(***************************************************************************)
(* The state machine of package todo: a caller holding one line turns a    *)
(* rune of it into a priority, looks for its tags, or parses it into an    *)
(* Item, assigns the Item's tag lists and reads the Item back              *)
(***************************************************************************)
\* the largest number of names in a list assigned to Projects
MaxTags == 2

\* the largest number of calls of Text and String on one Item
MaxCalls == 2

TodoHeads ==
  {<<>>,
   <<"x", " ">>,
   <<"(", "A", ")", " ">>,
   <<"x", " ">> \o DateToken(2012, 12, 23) \o <<" ", "(", "A", ")", " ">>
     \o DateToken(2012, 12, 20) \o <<" ">>}

TodoTexts ==
  {<<>>,
   <<"h", "e", "l", "l", "o">>,
   <<"h", "e", "l", "l", "o", " ", "@", "t", "h", "e", "r", "e", " ">>,
   <<"+", "f", "o", "o", "+", "b", "a", "r">>,
   <<"+", "f", "o", "o", "+", "b", "a", "r", "+">>,
   <<"+", "+", "f", "o", "o", "+", "b", "a", "r">>,
   <<"+", "a", "b", "+", "a", "b">>,
   <<"+", "a">>,
   <<"+", "f", "o", "o", " ", "@", "t", "h", "e", "r", "e">>,
   <<"a", " ", "+", "f", "o", "o", "+", "b", "a", "r", TAB, "b", TAB>>,
   <<" ", "+", "b", "a", "r", " ", " ", "+", "f", "o", "o", "_", " ", "+", "c", "-">>,
   <<"@", "t", "h", "e", "r", "e", "+", "f", "o", "o">>}

\* lines with a head that is cut short or out of order
TodoLines ==
  {<<"x">>, <<"(", "A", ")">>, <<"(", "a", ")", " ", "b">>,
   DateToken(2012, 12, 20), DateToken(2012, 12, 20) \o <<" ", "b">>,
   DateToken(2012, 13, 20) \o <<" ", "b">>,
   <<"x", " ">> \o DateToken(2012, 12, 23),
   <<"x", " ">> \o DateToken(2012, 12, 23) \o <<" ">>,
   <<"x", " ", "(", "A", ")", " ", "b">>,
   DateToken(2012, 12, 20) \o <<" ", "(", "A", ")", " ", "b">>,
   <<"(", "A", ")", " ">> \o DateToken(2012, 12, 20) \o <<TAB, "b">>}

\* the texts of TestRmTags, and texts with a tag twice
RmTagTexts ==
  {<<"+", "f", "o", "o", " ", "b", "a", "r">>,
   <<"+", "f", "o", "o", " ", "+", "b", "a", "r">>,
   <<"f", "o", "o", "+", "b", "a", "r">>,
   <<"+", "f", "o", "o", " ", "+", "f", "o", "o", " ", "x">>,
   <<"a", "+", "f", "o", "o", " ", "+", "f", "o", "o", TAB, "b">>,
   <<"+", "f", "o", "o", " ", " ", "+", "f", "o", "o">>}

\* the tags given to rmTag, with their marker
RmTags ==
  {<<"+", "f", "o", "o">>, <<"+", "b", "a", "r">>, <<"+", "a", "b">>, <<"+", "a">>,
   <<"@", "t", "h", "e", "r", "e">>}

\* lines that start with something like a priority, those of
\* TestParsePriority among them
TodoPrioInputs ==
  {<<"(", c, ")">> \o tl :
     c \in {"A", "B", "a", "1"},
     tl \in {<<>>, <<" ">>, <<TAB>>, <<" ", "H", "e", "l", "l", "o">>, <<"-", ">", "S">>}}
  \cup {<<"(", "B">>, <<"M", "o", "m", " ", "(", "A", ")", " ", "@", "p", "h", "o", "n", "e">>,
        <<"[", "A", "]", " ">>, <<"(", "A", "]", " ">>, <<"(", "A", "B", ")", " ">>,
        <<" ", "(", "A", ")", " ">>}

\* the strings of one rune
OneRune == {<<r>> : r \in Range(PriorityRunes) \cup {NoRune, "a", "z", "1", "(", " ", "+"}}

TodoInputs ==
  {h \o t : h \in TodoHeads, t \in TodoTexts} \cup TodoLines \cup OneRune \cup RmTagTexts
  \cup TodoPrioInputs

ProjectNames == {<<"b", "a", "r">>, <<"f", "o", "o", "+", "b", "a", "r">>, <<"a">>}

ProjectLists == UNION {[1..k -> ProjectNames] : k \in 0..MaxTags}

ContextLists ==
  {<<>>, <<<<"t", "h", "e", "r", "e">>>>,
   <<<<"t", "h", "e", "r", "e">>, <<"f", "o", "o">>>>}

InitTodo ==
  /\ input \in TodoInputs
  /\ pc = "start"
  /\ task = ZeroTask
  /\ item = ZeroItem
  /\ calls = 0
  /\ op = "none"
  /\ marker = NoRune
  /\ today = ZeroTime
  /\ pre = ZeroItem
  /\ ret = <<>>

\* what the caller saw of the last call on an Item
CalledItem(o, mk, r) ==
  /\ op' = o
  /\ marker' = mk
  /\ pre' = item
  /\ ret' = r
  /\ UNCHANGED <<input, task, today>>

\* an assignment is not a call: the caller has seen nothing
Assigned ==
  /\ op' = "set"
  /\ marker' = NoRune
  /\ pre' = ZeroItem
  /\ ret' = <<>>
  /\ UNCHANGED <<input, task, today>>

\* Priority(r).String() for the rune of a line of one rune
CallPriority ==
  /\ pc = "start"
  /\ Len(input) = 1
  /\ LET p == Priority(input[1])
     IN /\ pc' = Outcome(p.panic, "returned")
        /\ CalledItem("todo.Priority", NoRune,
                      IF p.panic THEN <<>> ELSE [p |-> p.p, str |-> PriorityString(p.p)])
  /\ UNCHANGED <<item, calls>>

CallFindTags ==
  /\ pc = "start"
  /\ \E mk \in {"+", "@"} : CalledItem("findTags", mk, findTags(mk, input))
  /\ pc' = "returned"
  /\ UNCHANGED <<item, calls>>

\* rmTag(input, tag); pre holds the tag
CallRmTag ==
  /\ pc = "start"
  /\ \E tag \in RmTags :
       /\ ret' = rmTag(input, tag)
       /\ pre' = [tag |-> tag]
  /\ op' = "rmTag"
  /\ marker' = NoRune
  /\ pc' = "returned"
  /\ UNCHANGED <<input, task, today, item, calls>>

CallTodoParsePriority ==
  /\ pc = "start"
  /\ CalledItem("todo.parsePriority", NoRune, todoParsePriority(input))
  /\ pc' = "returned"
  /\ UNCHANGED <<item, calls>>

CallParseItem ==
  /\ pc = "start"
  /\ item' = ParseItem(input)
  /\ pc' = "item"
  /\ CalledItem("ParseItem", NoRune, <<>>)
  /\ calls' = calls

\* ParseItem(ParseItem(input).String()); ret holds the first Item as
\* parsed, its String() and the second Item
CallParseStringParse ==
  /\ pc = "start"
  /\ \E o \in ItemString(ParseItem(input)) :
       CalledItem("ParseStringParse", NoRune,
                  [i |-> ParseItem(input), str |-> o.ret, back |-> ParseItem(o.ret)])
  /\ pc' = "returned"
  /\ UNCHANGED <<item, calls>>

\* the caller assigns the exported field Projects
SetProjects ==
  /\ pc = "item"
  /\ calls = 0
  /\ \E l \in ProjectLists : item' = [item EXCEPT !.Projects = l]
  /\ Assigned
  /\ UNCHANGED <<pc, calls>>

\* the caller assigns the exported field Contexts
SetContexts ==
  /\ pc = "item"
  /\ calls = 0
  /\ \E l \in ContextLists : item' = [item EXCEPT !.Contexts = l]
  /\ Assigned
  /\ UNCHANGED <<pc, calls>>

\* item.Priority.String()
CallPriorityString ==
  /\ pc = "item"
  /\ CalledItem("PriorityString", NoRune, PriorityString(item.Priority))
  /\ UNCHANGED <<pc, item, calls>>

CallText ==
  /\ pc = "item"
  /\ calls < MaxCalls
  /\ \E i2 \in Text(item) :
       /\ item' = i2
       /\ CalledItem("Item.Text", NoRune, i2.text)
  /\ calls' = calls + 1
  /\ pc' = pc

CallItemString ==
  /\ pc = "item"
  /\ calls < MaxCalls
  /\ \E o \in ItemString(item) :
       /\ item' = o.item
       /\ CalledItem("Item.String", NoRune, o.ret)
  /\ calls' = calls + 1
  /\ pc' = pc

NextTodo ==
  \/ CallPriority
  \/ CallFindTags
  \/ CallRmTag
  \/ CallTodoParsePriority
  \/ CallParseItem
  \/ CallParseStringParse
  \/ SetProjects
  \/ SetContexts
  \/ CallPriorityString
  \/ CallText
  \/ CallItemString

SpecTodo == InitTodo /\ [][NextTodo]_vars

(***************************************************************************)
(* Vocabulary of the properties, stated without the package's functions    *)
(***************************************************************************)
HasPrefix(s, pfx) == Len(s) >= Len(pfx) /\ SubSeq(s, 1, Len(pfx)) = pfx

\* the k-th smallest element of a finite set of integers
Nth(S, k) == CHOOSE i \in S : Cardinality({j \in S : j < i}) = k - 1

\* the maximal runs of non-whitespace characters of s, left to right
WsFields(s) ==
  LET white == {" ", TAB, LF, CR}
      starts == {i \in 1..Len(s) : s[i] \notin white /\ (i = 1 \/ s[i - 1] \in white)}
      EndOf(i) == CHOOSE j \in i..Len(s) :
                    /\ \A k \in i..j : s[k] \notin white
                    /\ j = Len(s) \/ s[j + 1] \in white
  IN [k \in 1..Cardinality(starts) |-> SubSeq(s, Nth(starts, k), EndOf(Nth(starts, k)))]

\* s with every CR LF pair and every other LF turned into one space
OneLine(s) ==
  LET kept == {i \in 1..Len(s) : ~(s[i] = CR /\ i < Len(s) /\ s[i + 1] = LF)}
  IN [k \in 1..Cardinality(kept) |->
        IF s[Nth(kept, k)] = LF THEN " " ELSE s[Nth(kept, k)]]

UpperAZ ==
  {"A", "B", "C", "D", "E", "F", "G", "H", "I", "J", "K", "L", "M",
   "N", "O", "P", "Q", "R", "S", "T", "U", "V", "W", "X", "Y", "Z"}

Numerals == {"0", "1", "2", "3", "4", "5", "6", "7", "8", "9"}

NumeralValue(c) ==
  CASE c = "0" -> 0 [] c = "1" -> 1 [] c = "2" -> 2 [] c = "3" -> 3 [] c = "4" -> 4
    [] c = "5" -> 5 [] c = "6" -> 6 [] c = "7" -> 7 [] c = "8" -> 8 [] c = "9" -> 9

\* the number written by the numerals s[i..j]
RECURSIVE Number(_, _, _)
Number(s, i, j) == IF j < i THEN 0 ELSE Number(s, i, j - 1) * 10 + NumeralValue(s[j])

MonthLengths(y) ==
  <<31, IF (y % 4 = 0 /\ y % 100 # 0) \/ y % 400 = 0 THEN 29 ELSE 28,
    31, 30, 31, 30, 31, 31, 30, 31, 30, 31>>

\* s starts with the 10 characters YYYY-MM-DD of a date of the calendar
StartsWithDate(s) ==
  /\ Len(s) >= 10
  /\ \A i \in {1, 2, 3, 4, 6, 7, 9, 10} : s[i] \in Numerals
  /\ s[5] = "-" /\ s[8] = "-"
  /\ Number(s, 6, 7) \in 1..12
  /\ Number(s, 9, 10) \in 1..MonthLengths(Number(s, 1, 4))[Number(s, 6, 7)]

\* the date s starts with, when StartsWithDate(s)
LeadingDate(s) == [y |-> Number(s, 1, 4), m |-> Number(s, 6, 7), d |-> Number(s, 9, 10)]

\* s without its first n characters and without one space that follows them
AfterToken(s, n) ==
  IF Len(s) > n /\ s[n + 1] = " " THEN SubSeq(s, n + 2, Len(s)) ELSE SubSeq(s, n + 1, Len(s))

(***************************************************************************)
(* Properties                                                              *)
(***************************************************************************)
\* C1: in every state the header fields of the Task are what the parser
\* chain parseDone, parseDate (only if done), parsePriority, parseDate
\* yields on the stored text, and fields is the whitespace split of the text.
C1_DerivedView ==
  LET d == parseDone(task.text)
      dd == IF d.done THEN parseDate(d.rest) ELSE [t |-> ZeroTime, rest |-> d.rest]
      p == parsePriority(dd.rest)
      cd == parseDate(p.rest)
  IN /\ task.done = d.done
     /\ task.doneDate = dd.t
     /\ task.prio = p.prio
     /\ task.createDate = cd.t
     /\ task.fields = WsFields(task.text)

\* a Complete call has replaced the text of a Task that has a priority, a
\* creation date and two or more fields
C1_Witness ==
  /\ op = "Complete"
  /\ ~pre.done
  /\ task.text # pre.text
  /\ task.prio # NoRune
  /\ task.createDate # ZeroTime
  /\ Len(task.fields) > Len(pre.fields)

\* C2: MakeTask(s).IsDone() is true exactly when s with its line breaks
\* normalized starts with "x" and a space; "x", "X " and "xhello" are not
\* done and "x " is; parseDone returns s[2:] on a match and s otherwise.
C2_DoneIffPrefix ==
  /\ op = "MakeTask" =>
       /\ IsDone(task) <=> HasPrefix(OneLine(input), <<"x", " ">>)
       /\ input = <<"x">> => ~IsDone(task)
       /\ input = <<"X", " ">> => ~IsDone(task)
       /\ input = <<"x", "h", "e", "l", "l", "o">> => ~IsDone(task)
       /\ input = <<"x", " ">> => IsDone(task)
  /\ op = "parseDone" =>
       IF HasPrefix(input, <<"x", " ">>)
         THEN ret = [done |-> TRUE, rest |-> SubSeq(input, 3, Len(input))]
         ELSE ret = [done |-> FALSE, rest |-> input]

\* MakeTask has made a done Task from a text whose "x" is followed by a
\* line break
C2_Witness ==
  /\ op = "MakeTask"
  /\ IsDone(task)
  /\ HasPrefix(input, <<"x", CR, LF>>)

\* C3: a Task whose text does not start with "x " is not done and has the
\* zero completion date, even when its text starts with a date; the
\* completion date of a done Task is the date right after the "x ".
C3_DoneDateOnlyWhenDone ==
  pc = "task" =>
    IF HasPrefix(task.text, <<"x", " ">>)
      THEN task.doneDate =
             IF StartsWithDate(SubSeq(task.text, 3, Len(task.text)))
               THEN LeadingDate(SubSeq(task.text, 3, Len(task.text)))
               ELSE ZeroTime
      ELSE ~IsDone(task) /\ task.doneDate = ZeroTime

\* MakeTask has made a Task that is not done from a text that starts with a
\* date
C3_Witness ==
  /\ op = "MakeTask"
  /\ ~IsDone(task)
  /\ StartsWithDate(task.text)
  /\ task.createDate = LeadingDate(task.text)

\* C4: parseDate(s) returns the zero date and s itself when s has fewer
\* than 10 characters or does not start with a date of the calendar;
\* otherwise it returns that date and s without the 10 characters and
\* without one space that follows them.
C4_ParseDate ==
  op = "parseDate" =>
    IF StartsWithDate(input)
      THEN ret = [t |-> LeadingDate(input), rest |-> AfterToken(input, 10)]
      ELSE ret = [t |-> ZeroTime, rest |-> input]

\* parseDate has parsed a leap day followed by two spaces and left the
\* second one
C4_Witness ==
  /\ op = "parseDate"
  /\ ret.t = [y |-> 2000, m |-> 2, d |-> 29]
  /\ Len(input) = 12
  /\ ret.rest = <<" ">>

\* C5: parsePriority(s) succeeds exactly when s starts with "(", one of
\* A..Z and ")"; it then returns the letter and s without these three
\* characters and without one space that follows them, and otherwise no
\* priority and s itself.  "(a)", "(AB)" and "(1)" are rejected, and the
\* priority of a Task is none or one of A..Z.
C5_ParsePriority ==
  /\ op = "parsePriority" =>
       /\ IF Len(input) >= 3 /\ input[1] = "(" /\ input[2] \in UpperAZ /\ input[3] = ")"
            THEN ret = [prio |-> input[2], rest |-> AfterToken(input, 3)]
            ELSE ret = [prio |-> NoRune, rest |-> input]
       /\ input \in {<<"(", "a", ")">>, <<"(", "A", "B", ")">>, <<"(", "1", ")">>}
            => ret = [prio |-> NoRune, rest |-> input]
  /\ task.prio \in UpperAZ \cup {NoRune}

\* parsePriority has taken "(Z)" and one of the two spaces after it
C5_Witness ==
  /\ op = "parsePriority"
  /\ ret.prio = "Z"
  /\ Len(input) = 5
  /\ ret.rest = <<" ">>

\* the dates that the header cases below are stated for, as written and as
\* dates
KnownDates ==
  {[tok |-> <<"2", "0", "1", "2", "-", "1", "2", "-", "2", "3">>,
    date |-> [y |-> 2012, m |-> 12, d |-> 23]],
   [tok |-> <<"2", "0", "1", "2", "-", "1", "2", "-", "2", "0">>,
    date |-> [y |-> 2012, m |-> 12, d |-> 20]],
   [tok |-> <<"2", "0", "1", "2", "-", "0", "2", "-", "2", "9">>,
    date |-> [y |-> 2012, m |-> 2, d |-> 29]],
   [tok |-> <<"2", "0", "1", "2", "-", "1", "2", "-", "2", "4">>,
    date |-> [y |-> 2012, m |-> 12, d |-> 24]],
   [tok |-> <<"2", "0", "2", "4", "-", "0", "2", "-", "2", "9">>,
    date |-> [y |-> 2024, m |-> 2, d |-> 29]]}

\* C6: MakeTask applies the header grammar in the order completion marker,
\* completion date, priority, creation date: "x <d1> (P) <d2>" is done with
\* completion date d1, priority P and creation date d2; the not done
\* "<d1> (P) <d2>" has no priority and creation date d1; "x (P) <d2>" has no
\* completion date, priority P and creation date d2.
C6_HeaderOrder ==
  pc = "task" =>
    \A k1 \in KnownDates, k2 \in KnownDates :
      LET t == task.text
          \* "(P) " and the second date from the n-th character on
          PrioThenDate(n) ==
            /\ Len(t) >= n + 13
            /\ t[n] = "(" /\ t[n + 1] \in UpperAZ /\ t[n + 2] = ")" /\ t[n + 3] = " "
            /\ SubSeq(t, n + 4, n + 13) = k2.tok
      IN /\ HasPrefix(t, <<"x", " ">> \o k1.tok \o <<" ">>) /\ PrioThenDate(14) =>
              /\ task.done
              /\ task.doneDate = k1.date
              /\ task.prio = t[15]
              /\ task.createDate = k2.date
         /\ HasPrefix(t, k1.tok \o <<" ">>) /\ PrioThenDate(12) =>
              /\ ~task.done
              /\ task.doneDate = ZeroTime
              /\ task.prio = NoRune
              /\ task.createDate = k1.date
         /\ HasPrefix(t, <<"x", " ">>) /\ PrioThenDate(3) =>
              /\ task.done
              /\ task.doneDate = ZeroTime
              /\ task.prio = t[4]
              /\ task.createDate = k2.date

\* MakeTask has parsed a line with all four header parts, with two
\* different dates
C6_Witness ==
  /\ op = "MakeTask"
  /\ task.done
  /\ task.doneDate = [y |-> 2012, m |-> 12, d |-> 23]
  /\ task.prio = "A"
  /\ task.createDate = [y |-> 2012, m |-> 12, d |-> 20]

\* the characters a tag may end with
WordRunes ==
  UpperAZ \cup Numerals \cup {"_"}
  \cup {"a", "b", "c", "d", "e", "f", "g", "h", "i", "j", "k", "l", "m",
        "n", "o", "p", "q", "r", "s", "t", "u", "v", "w", "x", "y", "z"}

\* C7: Tags(marker) returns the whitespace-delimited fields of the text
\* that start with the marker and end with a letter, a digit or "_", whole,
\* in the order of the text and with repetitions: "+foo+" is no tag,
\* "+foo+bar" is one tag, and "+foo+ +bar" has the one tag "+bar".
C7_Tags ==
  op = "Tags" =>
    LET IsTag(f) == f[1] = marker /\ f[Len(f)] \in WordRunes
        foo == <<"+", "f", "o", "o">>
        bar == <<"+", "b", "a", "r">>
    IN /\ ret = SelectSeq(WsFields(task.text), IsTag)
       /\ task.text = foo \o <<"+">> /\ marker = "+" => ret = <<>>
       /\ task.text = foo \o bar /\ marker = "+" => ret = <<foo \o bar>>
       /\ task.text = foo \o <<"+", " ">> \o bar /\ marker = "+" => ret = <<bar>>

\* Tags('+') has returned one tag twice for a text that holds it twice
C7_Witness ==
  /\ op = "Tags"
  /\ marker = "+"
  /\ Len(ret) = 2
  /\ ret[1] = ret[2]

\* C8: Keywords() maps the part before the first ":" of every field that
\* has a ":" to the part after it; fields without ":" add nothing; of the
\* fields with one key the last in the text gives the value; the field ":"
\* maps the empty key to the empty value.
C8_Keywords ==
  op = "Keywords" =>
    LET fs == WsFields(task.text)
        Colon(f) == CHOOSE i \in 1..Len(f) : f[i] = ":" /\ \A j \in 1..(i - 1) : f[j] # ":"
        Key(f) == SubSeq(f, 1, Colon(f) - 1)
        bound == {i \in 1..Len(fs) : \E j \in 1..Len(fs[i]) : fs[i][j] = ":"}
        LastOf(k) == CHOOSE i \in bound :
                       /\ Key(fs[i]) = k
                       /\ \A j \in bound : Key(fs[j]) = k => j <= i
    IN /\ ret = [k \in {Key(fs[i]) : i \in bound} |->
                   SubSeq(fs[LastOf(k)], Colon(fs[LastOf(k)]) + 1, Len(fs[LastOf(k)]))]
       /\ fs = <<<<":">>>> => ret = [k \in {<<>>} |-> <<>>]

\* Keywords() has returned the value of the second of two fields with the
\* key "due", a value that holds a ":"
C8_Witness ==
  /\ op = "Keywords"
  /\ Len(task.fields) = 2
  /\ task.fields[1] = <<"d", "u", "e", ":", "a">>
  /\ ret = [k \in {<<"d", "u", "e">>} |-> <<"b", ":", "c">>]

\* the date now as Complete() writes it
Written(now) == (CHOOSE k \in KnownDates : k.date = now).tok

\* C9: Complete() on a Task that is done leaves text, fields, done,
\* priority and both dates as they were.
C9_CompleteDoneNoChange ==
  op = "Complete" /\ pre.done => task = pre

\* Complete() has been called again, on the same day, on a Task that an
\* earlier Complete() had made done
C9_Witness ==
  /\ op = "Complete"
  /\ pre.done
  /\ pre.doneDate = today
  /\ HasPrefix(pre.text, <<"x", " ">> \o Written(today))

\* C10: Complete() on a Task that is not done and has the text t makes the
\* text "x " + today when t is empty and "x " + today + " " + t otherwise,
\* and derives the fields again, so the Task is done, its completion date
\* is today and its fields are those of the new text.
C10_CompleteNotDone ==
  op = "Complete" /\ ~pre.done =>
    /\ task.text = IF pre.text = <<>>
                     THEN <<"x", " ">> \o Written(today)
                     ELSE <<"x", " ">> \o Written(today) \o <<" ">> \o pre.text
    /\ IsDone(task)
    /\ task.doneDate = today
    /\ task.fields = <<<<"x">>, Written(today)>> \o pre.fields
    /\ pre.text = <<"x">> =>
         task.text = <<"x", " ">> \o Written(today) \o <<" ", "x">>

\* Complete() has been called on the Task "x", which is not done
C10_Witness ==
  /\ op = "Complete"
  /\ ~pre.done
  /\ pre.text = <<"x">>
  /\ Len(task.text) = 14
  /\ task.doneDate = today

\* C11: the text of a Task changes only by a Complete() on a Task that is
\* not done; String() returns the stored text as it is, which is the
\* normalized text of the construction or that text behind the prefix of
\* Complete(); IsDone, Priority, CreationDate, CompletionDate, Tags,
\* Keywords and String change no field of the Task.
C11_TextFrame ==
  /\ op \in {"IsDone", "Priority", "CreationDate", "CompletionDate",
             "Tags", "Keywords", "String"} => task = pre
  /\ op = "String" =>
       /\ ret = task.text
       /\ \/ ret = OneLine(input)
          \/ \E now \in Todays :
               ret = <<"x", " ">> \o Written(now)
                     \o (IF OneLine(input) = <<>> THEN <<>> ELSE <<" ">> \o OneLine(input))
  /\ pc = "task" /\ op # "MakeTask" /\ task.text # pre.text =>
       op = "Complete" /\ ~pre.done

\* String() has returned, after a Complete(), a text with two spaces in a
\* row
C11_Witness ==
  /\ op = "String"
  /\ ret # OneLine(input)
  /\ \E i \in 1..(Len(ret) - 1) : ret[i] = " " /\ ret[i + 1] = " "

\* C12: MakeTask turns every "\r\n" into one space and every other "\n"
\* into one space before it parses, so no text of a Task holds a "\n", and
\* "x\n2012-12-23" and "x\r\n2012-12-23" are done with completion date
\* 2012-12-23.
C12_LineBreaks ==
  /\ \A i \in 1..Len(task.text) : task.text[i] # LF
  /\ op = "MakeTask" =>
       /\ task.text = OneLine(input)
       /\ LET tok == <<"2", "0", "1", "2", "-", "1", "2", "-", "2", "3">>
          IN input \in {<<"x", LF>> \o tok, <<"x", CR, LF>> \o tok} =>
               /\ task.text = <<"x", " ">> \o tok
               /\ task.done
               /\ task.doneDate = [y |-> 2012, m |-> 12, d |-> 23]

\* MakeTask has made a Task from a text with "\r\n" and with "\n"
C12_Witness ==
  /\ op = "MakeTask"
  /\ Len(input) = 24
  /\ input[2] = CR /\ input[3] = LF /\ input[14] = LF
  /\ Len(task.text) = 23
  /\ task.createDate = [y |-> 2012, m |-> 12, d |-> 20]

\* C13: no call of parseDone, parseDate, parsePriority, MakeTask, Tags,
\* Keywords, Complete or String panics, whatever the input; a part that
\* cannot be parsed is reported as absent, the parser gives back its input
\* whole, and the Task keeps the whole text and its fields.
C13_Total ==
  /\ pc # "panic"
  /\ op = "parseDone" /\ ~ret.done => ret.rest = input
  /\ op = "parseDate" /\ ~StartsWithDate(input) => ret = [t |-> ZeroTime, rest |-> input]
  /\ op = "parsePriority" /\ ret.prio = NoRune => ret.rest = input
  /\ op = "MakeTask" =>
       /\ task.text = OneLine(input)
       /\ task.fields = WsFields(OneLine(input))

\* parsePriority has returned for the input "(A", which ends inside a
\* priority
C13_Witness ==
  /\ op = "parsePriority"
  /\ input = <<"(", "A">>
  /\ pc = "returned"
  /\ ret = [prio |-> NoRune, rest |-> input]

\* the lines of s: the pieces that end with a "\n", and what comes after
\* the last "\n" if it is not empty; each without its line end
LinesOf(s) ==
  LET ends == {i \in 1..Len(s) : s[i] = LF}
      n == Cardinality(ends)
      First(k) == IF k = 1 THEN 1 ELSE Nth(ends, k - 1) + 1
      last == IF n = 0 THEN 1 ELSE Nth(ends, n) + 1
      whole == [k \in 1..n |-> SubSeq(s, First(k), Nth(ends, k) - 1)]
  IN IF last <= Len(s) THEN Append(whole, SubSeq(s, last, Len(s))) ELSE whole

\* s without the "\r" and "\n" at its end
Stripped(s) ==
  LET keep == {i \in 0..Len(s) : \A j \in (i + 1)..Len(s) : s[j] \in {CR, LF}}
  IN SubSeq(s, 1, CHOOSE i \in keep : \A j \in keep : i <= j)

\* C15: ReadFile returns one Task for every line of the input, in the order
\* of the input: Tasks[i] is the Task of line i without the "\r" and "\n" at
\* its end, whether or not the input ends with a "\n".
C15_OneTaskPerLine ==
  op = "ReadFile" =>
    /\ Len(ret.Tasks) = Len(LinesOf(input))
    /\ \A i \in 1..Len(LinesOf(input)) :
         i <= Len(ret.Tasks) => ret.Tasks[i].text = Stripped(LinesOf(input)[i])

\* C16: a date of the calendar, formatted as the 10 characters YYYY-MM-DD
\* and given to parseDate alone or with text after it, comes back as the
\* same date.
C16_RoundTrip ==
  op = "FormatParseDate" => ret.t = today

\* a leap day has been formatted and parsed, alone and with text after it
C16_Witness ==
  /\ op = "FormatParseDate"
  /\ today = [y |-> 2000, m |-> 2, d |-> 29]
  /\ input = <<>>
  /\ ret = [t |-> today, rest |-> <<>>]

(***************************************************************************)
(* Package todo                                                            *)
(***************************************************************************)
\* C14: Priority(r) panics for every rune r that is not one of A..Z; for r
\* in A..Z it returns a priority whose String() is "(" + r + ")"; the
\* String() of NoPriority is the empty string.
C14_PriorityConstructor ==
  /\ op = "todo.Priority" =>
       /\ pc = "panic" <=> input[1] \notin UpperAZ
       /\ pc # "panic" => ret.str = <<"(", input[1], ")">>
  /\ op = "PriorityString" /\ pre.Priority = NoPriority => ret = <<>>

\* Priority has been called with a lower-case letter and has panicked
C14_Witness ==
  /\ op = "todo.Priority"
  /\ input = <<"a">>
  /\ pc = "panic"

\* s without the whitespace at its two ends
Trimmed(s) ==
  LET inked == {i \in 1..Len(s) : s[i] \notin {" ", TAB, LF, CR}}
  IN IF inked = {} THEN <<>>
     ELSE SubSeq(s, CHOOSE i \in inked : \A j \in inked : i <= j,
                    CHOOSE i \in inked : \A j \in inked : i >= j)

\* the Item of the example of C17, and its rendering
ExampleItem ==
  [Priority |-> "A", Projects |-> <<>>,
   Contexts |-> <<<<"t", "h", "e", "r", "e">>, <<"f", "o", "o">>>>,
   Done |-> TRUE, AddedDate |-> [y |-> 2012, m |-> 12, d |-> 20],
   FinishDate |-> [y |-> 2012, m |-> 12, d |-> 23],
   text |-> <<"h", "e", "l", "l", "o", " ", "@", "t", "h", "e", "r", "e", " ">>]

ExampleRendering ==
  <<"x", " ", "2", "0", "1", "2", "-", "1", "2", "-", "2", "3", " ", "(", "A", ")", " ",
    "2", "0", "1", "2", "-", "1", "2", "-", "2", "0", " ",
    "h", "e", "l", "l", "o", " ", "@", "t", "h", "e", "r", "e", " ", "@", "f", "o", "o">>

\* C17: Item.String() is, with the whitespace at its two ends trimmed: "x "
\* if Done, the finish date and a space if Done and the finish date is set,
\* "(P) " if a priority is set, the added date and a space if set, and what
\* Text() returns; the Item of the example renders as the example says.
C17_Rendering ==
  op = "Item.String" =>
    LET mark == IF pre.Done THEN <<"x", " ">> ELSE <<>>
        finish == IF pre.Done /\ pre.FinishDate # ZeroTime
                    THEN Written(pre.FinishDate) \o <<" ">> ELSE <<>>
        prio == IF pre.Priority # NoPriority THEN <<"(", pre.Priority, ")", " ">> ELSE <<>>
        added == IF pre.AddedDate # ZeroTime THEN Written(pre.AddedDate) \o <<" ">> ELSE <<>>
    IN /\ item \in Text(pre)
       /\ ret = Trimmed(mark \o finish \o prio \o added \o item.text)
       /\ pre = ExampleItem => ret = ExampleRendering

\* the Item of the example has been rendered
C17_Witness ==
  /\ op = "Item.String"
  /\ pre = ExampleItem
  /\ ret = ExampleRendering

\* C18: after Item.Text() returns, the tags that findTags finds in the
\* returned text are the names of the list, for "+" with Projects and for
\* "@" with Contexts: the names of the list that were missing have been
\* appended and the tags that are not in the list have been removed.
C18_Reconciled ==
  op = "Item.Text" =>
    /\ Range(findTags("+", ret)) = Range(pre.Projects)
    /\ Range(findTags("@", ret)) = Range(pre.Contexts)

\* the run of characters after place i of s, up to the next whitespace or
\* the end of s
RunAfter(s, i) ==
  LET stops == {j \in (i + 1)..(Len(s) + 1) : j = Len(s) + 1 \/ s[j] \in {" ", TAB, LF, CR}}
  IN SubSeq(s, i + 1, (CHOOSE j \in stops : \A k \in stops : j <= k) - 1)

\* C19: findTags(marker, s) reports, for every occurrence of the marker in
\* s and in their order, the run after the marker up to the next whitespace
\* or the end of s, whenever the last rune of the run is a letter, a digit
\* or an underscore.
C19_EveryOccurrence ==
  op = "findTags" =>
    LET reported == {i \in 1..Len(input) :
                       /\ input[i] = marker
                       /\ RunAfter(input, i) # <<>>
                       /\ RunAfter(input, i)[Len(RunAfter(input, i))] \in WordRunes}
    IN ret = [k \in 1..Cardinality(reported) |-> RunAfter(input, Nth(reported, k))]

\* C20: the text that Item.Text() returns is a function of the Item's text
\* and tag lists alone: it does not depend on the order in which the tags
\* to be removed are visited.
C20_OrderIndependent ==
  op = "Item.Text" => \A i2 \in Text(pre) : i2.text = ret

\* C21: rmTag(s, tag) deletes every occurrence of tag in s that is followed
\* at once by whitespace or by the end of s, and with it the whitespace rune
\* after the occurrence if the occurrence is at the start of s or preceded by
\* whitespace; all other characters stay, in their order.
C21_RmTag ==
  op = "rmTag" =>
    LET tag == pre.tag
        n == Len(tag)
        white == {" ", TAB, LF, CR}
        hits == {i \in 1..(Len(input) - n + 1) :
                   /\ SubSeq(input, i, i + n - 1) = tag
                   /\ i + n - 1 = Len(input) \/ input[i + n] \in white}
        gone == {k \in 1..Len(input) :
                   \E i \in hits :
                     \/ k \in i..(i + n - 1)
                     \/ k = i + n /\ (i = 1 \/ input[i - 1] \in white)}
        kept == (1..Len(input)) \ gone
    IN ret = [k \in 1..Cardinality(kept) |-> input[Nth(kept, k)]]

\* "+foo" has been removed twice from "a+foo +foo\tb": the first time
\* without the space after it, the second time with the tab
C21_Witness ==
  /\ op = "rmTag"
  /\ input = <<"a", "+", "f", "o", "o", " ", "+", "f", "o", "o", TAB, "b">>
  /\ pre.tag = <<"+", "f", "o", "o">>
  /\ ret = <<"a", " ", "b">>

\* C22: parsePriority(s) of package todo finds a priority only when s starts
\* with "(", a letter of A..Z, ")" and a space; it then returns the letter
\* and what follows the space; in every other case it returns no priority
\* and s itself.
C22_TodoParsePriority ==
  op = "todo.parsePriority" =>
    LET found == /\ Len(input) >= 4
                 /\ input[1] = "("
                 /\ input[2] \in UpperAZ
                 /\ input[3] = ")"
                 /\ input[4] = " "
    IN /\ found => ret = [prio |-> input[2], rest |-> SubSeq(input, 5, Len(input))]
       /\ ~found => ret = [prio |-> NoPriority, rest |-> input]
       /\ input \in {<<"(", "B">>, <<"(", "a", ")", " ">>, <<"(", "B", ")", "-", ">", "S">>,
                     <<" ", "(", "A", ")", " ">>, <<>>}
            => ret = [prio |-> NoPriority, rest |-> input]

\* the priority of "(B) Hello" has been parsed
C22_Witness ==
  /\ op = "todo.parsePriority"
  /\ input = <<"(", "B", ")", " ", "H", "e", "l", "l", "o">>
  /\ ret = [prio |-> "B", rest |-> <<"H", "e", "l", "l", "o">>]

\* C23: Complete() on a Task that is not done keeps what is derived from the
\* text it had: Priority() and CreationDate() are the same before and after,
\* Tags('+') and Tags('@') return the same sequences and Keywords() the
\* same mapping.
C23_CompleteFrame ==
  op = "Complete" /\ ~IsDone(pre) =>
    /\ pc # "panic"
    /\ TaskPriority(task) = TaskPriority(pre)
    /\ CreationDate(task) = CreationDate(pre)
    /\ Tags(task, ProjectTag) = Tags(pre, ProjectTag)
    /\ Tags(task, ContextTag) = Tags(pre, ContextTag)
    /\ Keywords(task) = Keywords(pre)

\* "(A) 2012-12-20 +foo" has been completed and has kept its priority, its
\* creation date and its project
C23_Witness ==
  /\ op = "Complete"
  /\ pre.text = <<"(", "A", ")", " ", "2", "0", "1", "2", "-", "1", "2", "-", "2", "0", " ",
                  "+", "f", "o", "o">>
  /\ IsDone(task)
  /\ TaskPriority(task) = "A"
  /\ CreationDate(task) = [y |-> 2012, m |-> 12, d |-> 20]
  /\ Tags(task, ProjectTag) = <<<<"+", "f", "o", "o">>>>

\* C24: for every File f, reading back with ReadFile what f.WriteTo wrote
\* gives a File with as many Tasks as f, with the same texts in the same
\* order.
C24_FileRoundTrip ==
  op = "WriteRead" =>
    /\ Len(ret.back.Tasks) = Len(ret.f.Tasks)
    /\ \A k \in 1..Len(ret.f.Tasks) :
         k <= Len(ret.back.Tasks) => ret.back.Tasks[k].text = ret.f.Tasks[k].text

\* C25: for every line, with i = ParseItem(line), ParseItem(i.String()) has
\* the Done, FinishDate, Priority and AddedDate of i, also when the text
\* after the head is empty.
C25_HeaderRoundTrip ==
  op = "ParseStringParse" =>
    /\ ret.back.Done = ret.i.Done
    /\ ret.back.FinishDate = ret.i.FinishDate
    /\ ret.back.Priority = ret.i.Priority
    /\ ret.back.AddedDate = ret.i.AddedDate

\* C26: Item.Text() is idempotent: when Text() has been called and the tag
\* lists have not been assigned since, a further call of Text() returns the
\* stored text and leaves it as it is, also for lists that hold names of
\* one character.
C26_TextIdempotent ==
  op = "Item.Text" /\ calls >= 2 => ret = pre.text /\ item.text = pre.text

\* C27: Item.Text() and Item.String() change nothing of the Item but its
\* stored text: Priority, Done, AddedDate and FinishDate are the same after
\* the call, and so are Projects and Contexts, element by element.
C27_ItemFrame ==
  op \in {"Item.Text", "Item.String"} =>
    /\ item.Priority = pre.Priority
    /\ item.Done = pre.Done
    /\ item.AddedDate = pre.AddedDate
    /\ item.FinishDate = pre.FinishDate
    /\ item.Projects = pre.Projects
    /\ item.Contexts = pre.Contexts

\* C28: the lazy and the eager Task agree: for every text, both hold the
\* same normalized text; what header() computes (done, completion date,
\* priority letter, creation date) is what MakeTask stores, the priority
\* being the letter as a string in one and as a rune in the other; and Tags
\* and Keywords return the same in both.
C28_LazyEager ==
  op = "BothDesigns" =>
    /\ pc # "panic"
    /\ ret.lazy.text = ret.eager.text
    /\ ret.lazy.done = ret.eager.done
    /\ ret.lazy.doneDate = ret.eager.doneDate
    /\ ret.lazy.prio = (IF ret.eager.prio = NoRune THEN <<>> ELSE <<ret.eager.prio>>)
    /\ ret.lazy.createDate = ret.eager.createDate
    /\ ret.lazy.projects = ret.eager.projects
    /\ ret.lazy.contexts = ret.eager.contexts
    /\ ret.lazy.keywords = ret.eager.keywords

\* both designs have read "2012-12-23 (A) 2012-12-20" of TestHeader: not
\* done, no priority, created on the first date
C28_Witness ==
  /\ op = "BothDesigns"
  /\ input = <<"2", "0", "1", "2", "-", "1", "2", "-", "2", "3", " ", "(", "A", ")", " ",
               "2", "0", "1", "2", "-", "1", "2", "-", "2", "0", " ">>
  /\ ~ret.lazy.done
  /\ ret.lazy.doneDate = ZeroTime
  /\ ret.lazy.prio = <<>>
  /\ ret.lazy.createDate = [y |-> 2012, m |-> 12, d |-> 23]

====
